---- MODULE Spec2Model ----
(***************************************************************************)
(* GitHubDataCollector (src/collector.py): the rate-limited request        *)
(* executor _make_request and the windowed, paginated driver               *)
(* collect_repositories, as a state machine.                               *)
(*                                                                         *)
(* Dates are counted in ticks since datetime(2014, 1, 1) 00:00, with       *)
(* TicksPerDay ticks to the day, so that datetime.now() keeps a time of    *)
(* day and strftime('%Y-%m-%d') is the truncation to whole days.           *)
(***************************************************************************)
EXTENDS Integers, Sequences, FiniteSets, TLC

----------------------------------------------------------------------------
(* Bounds of the model *)

\* max_repos ranges over 0..MaxRepos (and DeepTarget, below)
MaxRepos == 3
\* the upstream serves 0..MaxItems items on a page
MaxItems == 2
\* datetime.now() ranges over the ticks of day 0 .. day MaxEndDay
MaxEndDay == 31
\* resolution of the time of day
TicksPerDay == 2
\* at most MaxDepth nested _make_request frames (consecutive throttles + 1)
MaxDepth == 2
\* X-RateLimit-Reset ranges over 0..MaxReset, time.time() over 0..MaxNow
MaxReset == 0
MaxNow == 2
\* collect_repositories is called directly with max_repos in 0..MaxDirectRepos
MaxDirectRepos == 1

----------------------------------------------------------------------------
(* Program constants *)

StartDate == 0              \* datetime(2014, 1, 1)
WindowDays == 30            \* pd.Timedelta(days=30)
StepDays == 1               \* pd.Timedelta(days=1)
PerPage == 100              \* 'per_page': 100
PageCeiling == 10           \* if page > 10
DefaultRemaining == 30      \* headers.get('X-RateLimit-Remaining', 30)
DefaultReset == 0           \* headers.get('X-RateLimit-Reset', 0)
LowWaterMark == 5           \* if remaining < 5
SleepBuffer == 1            \* reset_time - time.time() + 1

\* a header that the response does not carry
Absent == -1

\* a target large enough for a window to reach the page ceiling on full
\* pages and still go on to the next window
DeepTarget == PageCeiling * MaxItems + 1
\* the upper time bound paired with DeepTarget: two windows
DeepEnd == (WindowDays + StepDays + 1) * TicksPerDay + 1

VARIABLES
    sizes,          \* environment: the item counts the upstream's pages have
    max_repos,      \* argument of collect_repositories
    end_date,       \* datetime.now() at line 50, in ticks
    start_date,     \* in ticks
    current_end,    \* in ticks
    params,         \* the params dict: q (the date range, in days) and page
    page,
    repositories,   \* the accumulator
    pc,             \* position of the driver
    depth,          \* number of active _make_request frames
    sent,           \* the request on the wire
    remaining,      \* line 30, read from the latest response of the call in
                    \* progress; Absent before one, and when session.get raised
    sleep_time,     \* line 34, of the latest throttled frame of the call
    netcalls,       \* session.get calls made by the call in progress
    sleeps,         \* time.sleep calls completed by the call in progress
    exc,            \* the exception in flight / being handled
    response,       \* items of the body returned to the driver
    idx,            \* items of response already iterated by the for loop
    windows,        \* history: the date ranges queried so far
    served,         \* history: the items of every body the driver consumed
    fetched,        \* history: bodies consumed in the current window
    result,         \* the rows of the returned table
    columns,        \* the columns of the returned table
    status_code,    \* response.status_code of the latest response of the call
                    \* in progress; 0 before one, and when session.get raised
    token           \* the credential in the collector's session headers

vars == <<sizes, max_repos, end_date, start_date, current_end, params, page,
          repositories, pc, depth, sent, remaining, sleep_time, netcalls,
          sleeps, exc, response, idx, windows, served, fetched, result,
          columns, status_code, token>>

----------------------------------------------------------------------------
(* Pure helpers *)

\* strftime('%Y-%m-%d'): the calendar day of a datetime
Day(t) == t \div TicksPerDay

Days(n) == n * TicksPerDay

\* mutant: a window one day wider
CurrentEndWide(s, e) ==
    IF s + Days(WindowDays + 1) > e THEN e ELSE s + Days(WindowDays + 1)

\* lines 53-55: the end of the window starting at s, clipped to the upper bound
CurrentEnd(s, e) == IF s + Days(WindowDays) > e THEN e ELSE s + Days(WindowDays)

\* line 57: the created: filter, as the pair of days it names
DateRange(s, ce) == <<Day(s), Day(ce)>>

\* mutant: the next window starts where the last one started
NextStartStuck(ce) == ce - Days(WindowDays)

\* line 95
NextStart(ce) == ce + Days(StepDays)

\* line 52
OuterCond(n, m, s, e) == n < m /\ s < e

\* mutant: one more page is requested when the target has just been reached
InnerCondLate(n, m) == n <= m

\* line 68
InnerCond(n, m) == n < m

\* line 30 / line 33: headers.get(key, default)
HeaderGet(h, default) == IF h = Absent THEN default ELSE h

\* line 32
Throttled(rem) == rem < LowWaterMark

\* line 34
SleepTime(reset, now) == reset - now + SleepBuffer

\* line 36: time.sleep raises ValueError on a negative argument
SleepRaises(t) == t < 0

\* mutant: the empty page is not detected
NoItemsNever(items) == FALSE

\* line 73: not response.get('items')
NoItems(items) == Len(items) = 0

\* mutant: the ceiling is tested one page late
PastCeilingLate(p) == p > PageCeiling + 1

\* lines 88-89
PastCeiling(p) == p > PageCeiling

\* mutant: the target is tested with > instead of >=
TargetReachedLate(n, m) == n > m

\* line 84
TargetReached(n, m) == n >= m

\* an upstream repository object: richer than the projection
Item(q, p, i) ==
    [name |-> <<q[1], p, i>>, full_name |-> <<"o", q[1], p, i>>,
     stargazers_count |-> 100 + MaxItems - i, language |-> "Python",
     created_at |-> q[1], size |-> i, forks |-> p]

\* the body of a page holding n items
Body(q, p, n) == [i \in 1..n |-> Item(q, p, i)]

\* mutant: two keys of the projection swapped
ProjectSwapped(repo) ==
    [name |-> repo.full_name, full_name |-> repo.name,
     stargazers_count |-> repo.stargazers_count, language |-> repo.language,
     created_at |-> repo.created_at]

\* lines 77-83: the projection of an upstream item
Project(repo) ==
    [name |-> repo.name, full_name |-> repo.full_name,
     stargazers_count |-> repo.stargazers_count, language |-> repo.language,
     created_at |-> repo.created_at]

\* lines 78-82: the keys of an accumulated record, in insertion order
Fields == <<"name", "full_name", "stargazers_count", "language", "created_at">>

\* line 97: pd.DataFrame(list of dicts) takes its columns from the keys of
\* the dicts; an empty list gives a table without columns
Columns(rows) ==
    IF Len(rows) = 0
    THEN <<>>
    ELSE SelectSeq(Fields, LAMBDA f : \E i \in 1..Len(rows) : f \in DOMAIN rows[i])

\* line 39: response.raise_for_status() raises on a client or server error
\* status (4xx, 5xx) and on no other status
RaisesForStatus(st) == st >= 400 /\ st < 600

\* lines 60-65 and 69
Params(q, p) ==
    [q |-> q, sort |-> "stars", order |-> "desc", per_page |-> PerPage, page |-> p]

NoParams == Params(<<0, 0>>, 0)

\* the values of the response headers and status the upstream may send
RemainingHeaders == {Absent, LowWaterMark - 1, LowWaterMark}
Statuses == {200, 304, 404, 600}
ResetHeaders == {Absent} \cup (0..MaxReset)

----------------------------------------------------------------------------
(* Initial state: main() entered, or collect_repositories called on a       *)
(* collector built by another caller (lines 47-50 executed)                 *)

\* line 101: the credential, empty when none was supplied
Tokens == {"", "PASTER_YOUR_TOKEN_HERE"}

\* line 50: the moments datetime.now() is sampled at: every time of day of
\* the first day of the span (no window, or one clipped window) and of the
\* days from the end of the first window on
EndDates ==
    {t \in 0..(Days(MaxEndDay + 1) - 1) :
        Day(t) < StepDays \/ Day(t) >= WindowDays}

\* every small target with every upper time bound, against an upstream
\* serving pages of any size; and the deep target, against an upstream
\* serving full or empty pages
Inputs ==
    ((0..MaxRepos) \X EndDates \X {0..MaxItems})
        \cup {<<DeepTarget, DeepEnd, {0, MaxItems}>>}

\* the inputs with which collect_repositories is called on a collector
\* that was not built by main()
DirectInputs == {inp \in Inputs : inp[1] <= MaxDirectRepos}

Init ==
    /\ \/ /\ pc = "main"
          /\ \E inp \in Inputs :
                 max_repos = inp[1] /\ end_date = inp[2] /\ sizes = inp[3]
       \/ /\ pc = "outer"
          /\ \E inp \in DirectInputs :
                 max_repos = inp[1] /\ end_date = inp[2] /\ sizes = inp[3]
    /\ token \in Tokens
    /\ columns = <<>>
    /\ status_code = 0
    /\ start_date = StartDate
    /\ current_end = StartDate
    /\ params = NoParams
    /\ page = 0
    /\ repositories = <<>>
    /\ depth = 0
    /\ sent = NoParams
    /\ remaining = Absent
    /\ sleep_time = 0
    /\ netcalls = 0
    /\ sleeps = 0
    /\ exc = "none"
    /\ response = <<>>
    /\ idx = 0
    /\ windows = <<>>
    /\ served = <<>>
    /\ fetched = 0
    /\ result = <<>>

----------------------------------------------------------------------------
(* main *)

\* lines 101-111: without a credential raise ValueError, else build the
\* collector (__init__ stores the credential as given) and call
\* collect_repositories
MainGuard ==
    /\ pc = "main"
    /\ IF token = ""
       THEN /\ exc' = "ConfigurationError"
            /\ pc' = "config_error"
       ELSE /\ pc' = "outer"
            /\ UNCHANGED exc
    /\ UNCHANGED <<sizes, max_repos, end_date, start_date, current_end,
                   params, page, repositories, depth, sent, remaining,
                   sleep_time, netcalls, sleeps, response, idx, windows,
                   served, fetched, result, columns, status_code, token>>

----------------------------------------------------------------------------
(* collect_repositories *)

\* mutant: the page counter is carried over from the window before
EnterWindowNoReset ==
    /\ pc = "outer"
    /\ OuterCond(Len(repositories), max_repos, start_date, end_date)
    /\ current_end' = CurrentEnd(start_date, end_date)
    /\ params' = Params(DateRange(start_date, current_end'), 0)
    /\ page' = page
    /\ windows' = Append(windows, DateRange(start_date, current_end'))
    /\ fetched' = 0
    /\ pc' = "inner"
    /\ UNCHANGED <<sizes, max_repos, end_date, start_date, repositories,
                   depth, sent, remaining, sleep_time, netcalls, sleeps, exc,
                   response, idx, served, result>>
    /\ UNCHANGED <<token, status_code, columns>>

\* line 52 true, lines 53-67: enter the next window
EnterWindow ==
    /\ pc = "outer"
    /\ OuterCond(Len(repositories), max_repos, start_date, end_date)
    /\ current_end' = CurrentEnd(start_date, end_date)
    /\ params' = Params(DateRange(start_date, current_end'), 0)
    /\ page' = 1
    /\ windows' = Append(windows, DateRange(start_date, current_end'))
    /\ fetched' = 0
    /\ pc' = "inner"
    /\ UNCHANGED <<sizes, max_repos, end_date, start_date, repositories,
                   depth, sent, remaining, sleep_time, netcalls, sleeps, exc,
                   response, idx, served, result>>
    /\ UNCHANGED <<token, status_code, columns>>

\* line 52 false, line 97: return the table
Return ==
    /\ pc = "outer"
    /\ ~OuterCond(Len(repositories), max_repos, start_date, end_date)
    /\ result' = repositories
    /\ pc' = "done"
    /\ UNCHANGED <<sizes, max_repos, end_date, start_date, current_end, params, page,
                   repositories, depth, sent, remaining, sleep_time, netcalls,
                   sleeps, exc, response, idx, windows, served, fetched>>
    /\ columns' = Columns(repositories)
    /\ UNCHANGED <<token, status_code>>

\* line 68 true, lines 69-72: call _make_request(search_url, params)
IssueRequest ==
    /\ pc = "inner"
    /\ InnerCond(Len(repositories), max_repos)
    /\ params' = [params EXCEPT !.page = page]
    /\ sent' = params'
    /\ depth' = 1
    /\ netcalls' = 0
    /\ sleeps' = 0
    /\ remaining' = Absent
    /\ sleep_time' = 0
    /\ pc' = "request"
    /\ UNCHANGED <<sizes, max_repos, end_date, start_date, current_end, page,
                   repositories, exc, response, idx, windows, served, fetched,
                   result>>
    /\ status_code' = 0
    /\ UNCHANGED <<token, columns>>

\* line 68 false: the inner loop ends
InnerExit ==
    /\ pc = "inner"
    /\ ~InnerCond(Len(repositories), max_repos)
    /\ pc' = "advance"
    /\ UNCHANGED <<sizes, max_repos, end_date, start_date, current_end, params, page,
                   repositories, depth, sent, remaining, sleep_time, netcalls,
                   sleeps, exc, response, idx, windows, served, fetched, result>>
    /\ UNCHANGED <<token, status_code, columns>>

----------------------------------------------------------------------------
(* _make_request: one action per outcome of session.get in the innermost frame *)

\* line 29 raises a RequestException (here a ConnectionError); lines 42-44
\* log it and re-raise it through every frame
NetworkError ==
    /\ pc = "request"
    /\ netcalls' = netcalls + 1
    /\ remaining' = Absent
    /\ exc' = "ConnectionError"
    /\ depth' = 0
    /\ pc' = "except"
    /\ UNCHANGED <<sizes, max_repos, end_date, start_date, current_end,
                   params, page, repositories, sent, sleep_time, sleeps,
                   response, idx, windows, served, fetched, result>>
    /\ status_code' = 0
    /\ UNCHANGED <<token, columns>>

\* lines 29-37: a response that reports a low quota, whatever its status:
\* sleep and call _make_request(url, params) again; time.sleep raises a
\* ValueError on a negative duration, which no frame of _make_request catches
ThrottledResponse(remHdr, resetHdr, status, now) ==
    /\ pc = "request"
    /\ depth < MaxDepth
    /\ Throttled(HeaderGet(remHdr, DefaultRemaining))
    /\ netcalls' = netcalls + 1
    /\ remaining' = HeaderGet(remHdr, DefaultRemaining)
    /\ sleep_time' = SleepTime(HeaderGet(resetHdr, DefaultReset), now)
    /\ IF SleepRaises(sleep_time')
       THEN /\ exc' = "ValueError"
            /\ depth' = 0
            /\ pc' = "except"
            /\ UNCHANGED <<sleeps, sent>>
       ELSE /\ sleeps' = sleeps + 1
            /\ depth' = depth + 1
            /\ sent' = params
            /\ pc' = "request"
            /\ UNCHANGED exc
    /\ UNCHANGED <<sizes, max_repos, end_date, start_date, current_end, params, page,
                   repositories, response, idx, windows, served, fetched, result>>
    /\ status_code' = status
    /\ UNCHANGED <<token, columns>>

\* lines 29-32 and 39: quota not low, raise_for_status raises an HTTPError
HTTPError(remHdr) ==
    /\ pc = "request"
    /\ ~Throttled(HeaderGet(remHdr, DefaultRemaining))
    /\ netcalls' = netcalls + 1
    /\ remaining' = HeaderGet(remHdr, DefaultRemaining)
    /\ exc' = "HTTPError"
    /\ depth' = 0
    /\ pc' = "except"
    /\ UNCHANGED <<sizes, max_repos, end_date, start_date, current_end, params, page,
                   repositories, sent, sleep_time, sleeps, response, idx, windows,
                   served, fetched, result>>
    /\ status_code' \in {st \in Statuses : RaisesForStatus(st)}
    /\ UNCHANGED <<token, columns>>

\* lines 29-32, 39-40: quota not low, raise_for_status does not raise (the
\* status is 2xx, or any other status that is not 4xx or 5xx), the body is
\* JSON: the parsed body is returned
\* through every frame
OKResponse(remHdr, n) ==
    /\ pc = "request"
    /\ n \in sizes
    /\ ~Throttled(HeaderGet(remHdr, DefaultRemaining))
    /\ netcalls' = netcalls + 1
    /\ remaining' = HeaderGet(remHdr, DefaultRemaining)
    /\ depth' = 0
    /\ response' = Body(sent.q, sent.page, n)
    /\ pc' = "returned"
    /\ UNCHANGED <<sizes, max_repos, end_date, start_date, current_end,
                   params, page, repositories, sent, sleep_time, sleeps, exc,
                   idx, windows, served, fetched, result>>
    /\ status_code' \in {st \in Statuses : ~RaisesForStatus(st)}
    /\ UNCHANGED <<token, columns>>

\* lines 29-32, 39-40: quota not low, raise_for_status does not raise, the
\* body is not JSON: response.json() raises a JSONDecodeError, which leaves
\* the call (a RequestException, logged and re-raised by lines 42-44)
JSONError(remHdr) ==
    /\ pc = "request"
    /\ ~Throttled(HeaderGet(remHdr, DefaultRemaining))
    /\ netcalls' = netcalls + 1
    /\ remaining' = HeaderGet(remHdr, DefaultRemaining)
    /\ exc' = "JSONDecodeError"
    /\ depth' = 0
    /\ pc' = "except"
    /\ UNCHANGED <<sizes, max_repos, end_date, start_date, current_end, params, page,
                   repositories, sent, sleep_time, sleeps, response, idx, windows,
                   served, fetched, result>>
    /\ status_code' \in {st \in Statuses : ~RaisesForStatus(st)}
    /\ UNCHANGED <<token, columns>>

----------------------------------------------------------------------------
(* collect_repositories, continued *)

\* lines 72-76: the driver takes the body; no items: break
Consume ==
    /\ pc = "returned"
    /\ idx' = 0
    /\ served' = served \o response
    /\ fetched' = fetched + 1
    /\ remaining' = Absent
    /\ sleep_time' = 0
    /\ netcalls' = 0
    /\ sleeps' = 0
    /\ pc' = IF NoItems(response) THEN "advance" ELSE "append"
    /\ UNCHANGED <<sizes, max_repos, end_date, start_date, current_end,
                   params, page, repositories, depth, sent, exc, response,
                   windows, result>>
    /\ status_code' = 0
    /\ UNCHANGED <<token, columns>>

\* mutant: the new record is put in front of the accumulator
AppendItemPrepend ==
    /\ pc = "append"
    /\ idx < Len(response)
    /\ repositories' = <<Project(response[idx + 1])>> \o repositories
    /\ idx' = idx + 1
    /\ IF TargetReached(Len(repositories'), max_repos) \/ idx' = Len(response)
       THEN /\ page' = page + 1
            /\ pc' = IF PastCeiling(page') THEN "advance" ELSE "inner"
       ELSE /\ UNCHANGED page
            /\ pc' = "append"
    /\ UNCHANGED <<sizes, max_repos, end_date, start_date, current_end, params, depth,
                   sent, remaining, sleep_time, netcalls, sleeps, exc, response,
                   windows, served, fetched, result>>
    /\ UNCHANGED <<token, status_code, columns>>

\* lines 76-89: one iteration of the for loop; on its last iteration (the
\* items are used up, or the target is reached) also lines 87-89
AppendItem ==
    /\ pc = "append"
    /\ idx < Len(response)
    /\ repositories' = Append(repositories, Project(response[idx + 1]))
    /\ idx' = idx + 1
    /\ IF TargetReached(Len(repositories'), max_repos) \/ idx' = Len(response)
       THEN /\ page' = page + 1
            /\ pc' = IF PastCeiling(page') THEN "advance" ELSE "inner"
       ELSE /\ UNCHANGED page
            /\ pc' = "append"
    /\ UNCHANGED <<sizes, max_repos, end_date, start_date, current_end, params, depth,
                   sent, remaining, sleep_time, netcalls, sleeps, exc, response,
                   windows, served, fetched, result>>
    /\ UNCHANGED <<token, status_code, columns>>

\* mutant: the exception ends the run and the accumulated rows are lost
HandleExceptionAbort ==
    /\ pc = "except"
    /\ result' = <<>>
    /\ pc' = "done"
    /\ UNCHANGED <<sizes, max_repos, end_date, start_date, current_end,
                   params, page, repositories, depth, sent, remaining,
                   sleep_time, netcalls, sleeps, exc, response, idx, windows,
                   served, fetched>>
    /\ UNCHANGED <<token, status_code, columns>>

\* lines 91-93: except Exception: log, break
HandleException ==
    /\ pc = "except"
    /\ exc' = "none"
    /\ remaining' = Absent
    /\ sleep_time' = 0
    /\ netcalls' = 0
    /\ sleeps' = 0
    /\ pc' = "advance"
    /\ UNCHANGED <<sizes, max_repos, end_date, start_date, current_end, params, page,
                   repositories, depth, sent, response, idx, windows, served,
                   fetched, result>>
    /\ status_code' = 0
    /\ UNCHANGED <<token, columns>>

\* line 95
Advance ==
    /\ pc = "advance"
    /\ start_date' = NextStart(current_end)
    /\ pc' = "outer"
    /\ UNCHANGED <<sizes, max_repos, end_date, current_end, params, page, repositories,
                   depth, sent, remaining, sleep_time, netcalls, sleeps, exc,
                   response, idx, windows, served, fetched, result>>
    /\ UNCHANGED <<token, status_code, columns>>


Next ==
    \/ MainGuard
    \/ EnterWindow
    \/ Return
    \/ IssueRequest
    \/ InnerExit
    \/ NetworkError
    \/ \E r \in RemainingHeaders, t \in ResetHeaders, st \in Statuses,
         now \in 0..MaxNow :
           ThrottledResponse(r, t, st, now)
    \/ \E r \in RemainingHeaders : HTTPError(r)
    \/ \E r \in RemainingHeaders, n \in 0..MaxItems : OKResponse(r, n)
    \/ \E r \in RemainingHeaders : JSONError(r)
    \/ Consume
    \/ AppendItem
    \/ HandleException
    \/ Advance

Spec == Init /\ [][Next]_vars

----------------------------------------------------------------------------
(* Properties *)

\* the number of calendar days in the i-th date range queried
Width(i) == windows[i][2] - windows[i][1] + 1

\* the response just received by _make_request reported a low quota
ThrottledStep ==
    /\ pc = "request"
    /\ netcalls' = netcalls + 1
    /\ remaining' # Absent
    /\ remaining' < LowWaterMark

\* C1: the accumulator never holds more than max_repos records, in any state
\* of the run (also between two appends of one page), and neither does the
\* returned table.
C1_AccumulatorBounded ==
    /\ Len(repositories) <= max_repos
    /\ Len(result) <= max_repos

\* C1 witness: the run has ended with the target reached in the middle of a
\* page, the rest of that page dropped.
C1_Witness ==
    /\ pc = "done"
    /\ max_repos > 0
    /\ Len(result) = max_repos
    /\ idx < Len(response)
    /\ Len(served) > max_repos

\* C2 (as claimed): every response that reports a quota below the low-water
\* mark is followed by a sleep and by the same request being issued again,
\* with the accumulator, the page number and the window untouched; and a body
\* handed to the driver never comes from a throttled response.
C2_ThrottledRequestReissued ==
    [][/\ ThrottledStep =>
            /\ pc' = "request"
            /\ sleeps' = sleeps + 1
            /\ sent' = sent
            /\ repositories' = repositories
            /\ page' = page
            /\ start_date' = start_date
            /\ current_end' = current_end
       /\ pc' = "returned" => remaining' >= LowWaterMark]_vars

\* C3 (as claimed): a run over a non-empty time span that is not stopped by
\* the target has queried date ranges that start at the overall start, follow
\* one another day on day, end on the day of the upper bound, and hold every
\* day from the overall start to the upper bound exactly once.
C3_WindowsCoverSpan ==
    (pc = "done" /\ Len(result) < max_repos /\ end_date > StartDate) =>
        /\ Len(windows) >= 1
        /\ windows[1][1] = Day(StartDate)
        /\ windows[Len(windows)][2] = Day(end_date)
        /\ \A i \in 1..Len(windows) : windows[i][1] <= windows[i][2]
        /\ \A i \in 1..(Len(windows) - 1) : windows[i + 1][1] = windows[i][2] + 1
        /\ \A d \in Day(StartDate)..Day(end_date) :
               Cardinality({i \in 1..Len(windows) :
                               windows[i][1] <= d /\ d <= windows[i][2]}) = 1

\* C4 (as claimed): every date range queried holds at most 30 calendar days,
\* and every one but the last exactly 30.
C4_WindowAtMost30Days ==
    \A i \in 1..Len(windows) :
        /\ Width(i) <= 30
        /\ i < Len(windows) => Width(i) = 30

\* C4 (amended): every date range queried holds at most 31 calendar days (its
\* first day and the 30 that follow), every one but the last exactly 31, and
\* only the last may hold fewer.
C4_WindowAtMost31Days ==
    \A i \in 1..Len(windows) :
        /\ Width(i) >= 1
        /\ Width(i) <= 31
        /\ i < Len(windows) => Width(i) = 31

\* C4 witness: a finished run whose first window is 31 days wide and whose
\* last window was clipped to fewer.
C4_Witness ==
    /\ pc = "done"
    /\ Len(windows) >= 2
    /\ Width(1) = 31
    /\ Width(Len(windows)) < 31

\* C5: every request carries a page number in 1..10 of the window being
\* paginated, and it is the page after the bodies already consumed in that
\* window: with ten bodies consumed no request of that window is possible.
C5_PageCeiling ==
    /\ pc \in {"inner", "request", "returned"} =>
            /\ page \in 1..10
            /\ fetched = page - 1
    /\ pc = "request" =>
            /\ sent.page = page
            /\ sent.q = windows[Len(windows)]

\* C5 witness: page 10 of the first window was full and was appended whole,
\* and the request now on the wire is page 1 of the second window.
C5_Witness ==
    /\ pc = "request"
    /\ Len(windows) = 2
    /\ sent.page = 1
    /\ Len(repositories) = 10 * MaxItems
    /\ repositories[Len(repositories)].name = <<windows[1][1], 10, MaxItems>>

\* C6: a body without items makes the driver leave the inner loop at once,
\* with nothing appended and the page counter as it was; a request is only
\* ever issued as page 1 of a window later than that of the request before
\* it, or after a body with items in the same window.
C6_EmptyPageEndsWindow ==
    [][/\ (pc = "returned" /\ Len(response) = 0) =>
            /\ pc' = "advance"
            /\ repositories' = repositories
            /\ page' = page
       /\ (pc = "inner" /\ pc' = "request") =>
            IF fetched = 0
            THEN /\ sent'.page = 1
                 /\ sent = NoParams \/ sent'.q[1] > sent.q[2]
            ELSE /\ Len(response) > 0
                 /\ sent'.q = sent.q
                 /\ sent'.page = sent.page + 1]_vars

\* C6 witness: the first window ended on an empty second page, and the
\* request on the wire is page 1 of the second window.
C6_Witness ==
    /\ pc = "request"
    /\ Len(windows) = 2
    /\ sent.page = 1
    /\ page = 1
    /\ Len(response) = 0
    /\ Len(repositories) > 0
    /\ repositories[Len(repositories)].name[2] = 1

\* C7: an exception raised by a page fetch is handled inside the driver: it
\* leaves the accumulator as it was, ends the pagination of the window and
\* nothing else, the run goes on to the next window from its page 1, and the
\* run only ends with the target reached or the time span used up, returning
\* all that was accumulated.
C7_ExceptionAbandonsWindowOnly ==
    [][/\ pc' = "except" => (pc = "request" /\ repositories' = repositories)
       /\ pc = "except" =>
            /\ pc' = "advance"
            /\ repositories' = repositories
            /\ exc' = "none"
       /\ pc = "advance" => (pc' = "outer" /\ start_date' > current_end)
       /\ (pc = "outer" /\ pc' # "done") => (pc' = "inner" /\ page' = 1)
       /\ pc' = "done" =>
            /\ pc = "outer"
            /\ exc' = "none"
            /\ result' = repositories
            /\ Len(repositories) >= max_repos \/ start_date >= end_date]_vars

\* C7 witness: a window abandoned on an exception after its first page was
\* appended, with the target not reached: the records are still there.
C7_Witness ==
    /\ pc = "advance"
    /\ exc = "none"
    /\ page = fetched + 1
    /\ page = 2
    /\ Len(repositories) > 0
    /\ Len(repositories) < max_repos

\* C8: when the bodies consumed hold at least max_repos items, the returned
\* table is the projection of the first max_repos of them, in the order
\* served.
C8_FirstMaxReposInFetchOrder ==
    (pc = "done" /\ Len(served) >= max_repos) =>
        /\ Len(result) = max_repos
        /\ \A i \in 1..max_repos :
               /\ DOMAIN result[i] =
                    {"name", "full_name", "stargazers_count", "language",
                     "created_at"}
               /\ result[i].name = served[i].name
               /\ result[i].full_name = served[i].full_name
               /\ result[i].stargazers_count = served[i].stargazers_count
               /\ result[i].language = served[i].language
               /\ result[i].created_at = served[i].created_at

\* C8 witness: the scaled end-to-end scenario: full pages of one window, the
\* target reached in the middle of the last one.
C8_Witness ==
    /\ pc = "done"
    /\ max_repos > MaxItems
    /\ Len(windows) = 1
    /\ Len(result) = max_repos
    /\ Len(served) > max_repos
    /\ Len(served) = fetched * MaxItems

\* the response just received did not report a low quota
UnthrottledStep ==
    /\ pc = "request"
    /\ netcalls' = netcalls + 1
    /\ status_code' # 0
    /\ remaining' >= LowWaterMark

\* the network call just made raised
NetworkFailureStep ==
    /\ pc = "request"
    /\ netcalls' = netcalls + 1
    /\ status_code' = 0

\* C9 (as claimed): when the network call raises, or the response has a
\* status that is not 2xx and the quota is not low, the call raises to its
\* caller at once, without a sleep and without another network call.
C9_Non2xxRaisesUnretried ==
    [][(\/ NetworkFailureStep
        \/ UnthrottledStep /\ status_code' \notin 200..299) =>
           /\ pc' = "except"
           /\ exc' # "none"
           /\ sleeps' = sleeps]_vars

\* C10 (as claimed): a call never raises on a response that reports a low
\* quota, however many it has met.
C10_ThrottleNeverRaises ==
    pc = "except" => ~(remaining # Absent /\ remaining < LowWaterMark)

\* C11 (as claimed): whatever the run accumulated, also nothing, the returned
\* table has the five columns name, full_name, stargazers_count, language,
\* created_at, and its rows are the accumulated records in insertion order.
C11_FiveColumnsAlways ==
    pc = "done" =>
        /\ columns = <<"name", "full_name", "stargazers_count", "language",
                       "created_at">>
        /\ result = repositories

\* C13 (as claimed): a collector whose credential is empty never issues a
\* request: neither a request in flight nor one already sent exists in any
\* state of a run with an empty token.
C13_EmptyCredentialIssuesNothing ==
    token = "" =>
        /\ pc # "request"
        /\ sent = NoParams
        /\ netcalls = 0

\* C14 (as claimed): the duration handed to time.sleep after a throttled
\* response is never negative, and a stale or absent reset time never makes
\* the call fail.
C14_SleepClamped ==
    /\ sleep_time >= 0
    /\ exc # "ValueError"

\* The run under the proviso of C15: the interpreter keeps executing the next
\* statement, and every session.get is answered (a body, an error, or a
\* throttled response, of which one call meets at most MaxDepth - 1).
FairSpec == Spec /\ WF_vars(Next)

\* C15: the run ends; it ends exactly when the loop test of the driver fails,
\* i.e. the accumulator has reached max_repos or the window start is no longer
\* before the upper bound; every outer iteration moves the window start
\* strictly forward, whatever ended its inner loop; and no window has more
\* than ten page responses consumed.
C15_Terminates ==
    /\ <>(pc \in {"done", "config_error"})
    /\ [](pc = "done" =>
            \/ Len(repositories) >= max_repos
            \/ start_date >= end_date)
    /\ [][(/\ pc = "outer"
           /\ \/ Len(repositories) >= max_repos
              \/ start_date >= end_date) => pc' = "done"]_vars
    /\ [][pc' = "done" => pc = "outer"]_vars
    /\ [][pc = "advance" => start_date' > start_date]_vars
    /\ [](fetched <= 10)

\* C15 witness: the run has ended short of the target because the window
\* start left the time span, after two windows of which the second was
\* abandoned at its first page.
C15_Witness ==
    /\ pc = "done"
    /\ max_repos > Len(repositories)
    /\ start_date >= end_date
    /\ Len(windows) = 2
    /\ fetched = 0
    /\ Len(served) > 0

\* C16 (as claimed): the quota test comes before the status test: a
\* response whose quota was low is neither returned nor raised on, whatever
\* its status: the call goes on with the request in flight again; a body is
\* handed to the driver only from a response with status 2xx whose quota was
\* not low (5 or more, or no header, read as 30); and the status test raises
\* only on a response whose quota was not low and whose status is not 2xx.
C16_ThrottleBeforeStatus ==
    /\ [][ThrottledStep =>
             /\ pc' = "request"
             /\ exc' = "none"]_vars
    /\ [](pc = "returned" =>
             /\ remaining >= 5
             /\ status_code \in 200..299)
    /\ [](exc = "HTTPError" =>
             /\ remaining >= 5
             /\ status_code \notin 200..299)
    /\ [][(UnthrottledStep /\ status_code' \notin 200..299) =>
             pc' = "except"]_vars

\* the record named a was fetched before the record named b: an earlier
\* window, or the same window and an earlier page, or the same page and an
\* earlier position in the page
FetchedBefore(a, b) ==
    \/ a[1] < b[1]
    \/ a[1] = b[1] /\ a[2] < b[2]
    \/ a[1] = b[1] /\ a[2] = b[2] /\ a[3] < b[3]

\* C17: every step leaves the accumulator as it is or adds one record at its
\* end, the old contents staying as a prefix; and the records of the
\* accumulator are in fetch order: by window, then by page, then by position
\* in the page.
C17_AppendOnlyFetchOrder ==
    /\ [][\/ repositories' = repositories
          \/ /\ Len(repositories') = Len(repositories) + 1
             /\ SubSeq(repositories', 1, Len(repositories)) = repositories]_vars
    /\ [](\A i, j \in 1..Len(repositories) :
              i < j => FetchedBefore(repositories[i].name, repositories[j].name))

\* C17 witness: the accumulator holds records of two windows, of two pages
\* of the first window and of two positions of its first page.
C17_Witness ==
    /\ Len(repositories) > MaxItems + 1
    /\ repositories[1].name[1] < repositories[Len(repositories)].name[1]
    /\ repositories[1].name[2] < repositories[MaxItems + 1].name[2]
    /\ repositories[1].name[3] < repositories[MaxItems].name[3]

\* C18: a request is in flight only while the accumulator holds fewer than
\* max_repos records; from a state in which the target is reached, no step
\* issues a request, enters a window or adds a record; and a run with a
\* target of 0 issues no request and returns an empty table.
C18_NoRequestAtTarget ==
    /\ [](pc = "request" => Len(repositories) < max_repos)
    /\ [][Len(repositories) >= max_repos =>
             /\ pc' # "request"
             /\ sent' = sent
             /\ windows' = windows
             /\ repositories' = repositories]_vars
    /\ [](max_repos <= 0 =>
             /\ sent = NoParams
             /\ windows = <<>>
             /\ served = <<>>
             /\ result = <<>>)

\* C18 witness: the target was reached in the middle of the first page of
\* the second window; the run has ended with that page the last one
\* requested and the rest of its items not accumulated.
C18_Witness ==
    /\ pc = "done"
    /\ max_repos > 0
    /\ Len(result) = max_repos
    /\ idx < Len(response)
    /\ Len(windows) = 2
    /\ sent.page = 1
    /\ fetched = 1

\* C19: a window, once entered, starts at page 1 and its first step is a
\* request; every request issued by the driver is for the page after the
\* pages consumed so far in the current window, with the date range of that
\* window, and, unless it is the first, follows a consumed body that was not
\* empty and whose last item came from the page before; a retry after a
\* throttled response sends the same parameters again.
C19_PagesConsecutive ==
    /\ [][(pc = "outer" /\ pc' = "inner") =>
             /\ page' = 1
             /\ fetched' = 0]_vars
    /\ [][(pc = "inner" /\ fetched = 0) => pc' = "request"]_vars
    /\ [][(pc = "inner" /\ pc' = "request") =>
             /\ sent'.page = fetched + 1
             /\ sent'.q = windows[Len(windows)]
             /\ fetched > 0 =>
                   /\ Len(response) > 0
                   /\ response[Len(response)].name[2] = fetched
                   /\ response[Len(response)].name[1] = sent'.q[1]]_vars
    /\ [][(pc = "request" /\ pc' = "request") => sent' = sent]_vars
    /\ [](pc = "request" => sent.page = fetched + 1)

\* C19 witness: the third page of the second window is in flight for the
\* second time, after a throttled response; two pages of that window have
\* been consumed.
C19_Witness ==
    /\ pc = "request"
    /\ Len(windows) = 2
    /\ sent.page = 3
    /\ fetched = 2
    /\ sleeps = 1
    /\ netcalls = 1

====
